---- MODULE Spec2Model ----
(***************************************************************************)
(* PurePixel image registry (src/src/store/useImageStore.ts): the zustand  *)
(* store holding the image records, the global settings and the batch      *)
(* flag, and the asynchronous per-record pipeline that processSingleImage  *)
(* starts.  A JavaScript object is a function from its own keys to values: *)
(* an optional key that was never written (result, errorMessage, width)    *)
(* is missing from the DOMAIN, and an object spread is Merge.              *)
(*                                                                         *)
(* A blob is the term of the transform calls that produce it; the size     *)
(* fields of a result are left out.  An object URL is named by what it was *)
(* created for: URL.createObjectURL returns a URL no record holds.         *)
(* released counts the URL.revokeObjectURL calls per URL; the store takes  *)
(* the URLs it revokes from the records of the collection, so the count is *)
(* kept for the URLs a record held when the latest action began.           *)
(*                                                                         *)
(* ops holds the processSingleImage calls that are suspended at an await,  *)
(* runs the processImages calls suspended at Promise.all, unhandled        *)
(* whether a rejection has left a store action, issued the ids given to    *)
(* records so far, and last the latest action taken.                       *)
(*                                                                         *)
(* Spec gives every new record an id that was not issued before.  What     *)
(* generateId computes from the clock now and a random draw is the subject *)
(* of SpecIds.  SpecPipeline applies the transform pipeline of             *)
(* processSingleImage and the encoding choice of the worker to one input   *)
(* held in call.  SpecExport is exportImages on collections of finished    *)
(* records, SpecTransform one run of processSingleImage event by event,    *)
(* and SpecHook the worker hook (src/src/hooks/useImageWorker.ts) with the *)
(* worker's message handler.                                               *)
(***************************************************************************)
EXTENDS Integers, Sequences, FiniteSets, Bags, TLC

VARIABLES images, globalSettings, isProcessing, ops, runs, nextId, unhandled, last,
          released, issued, now, call,
          workerRef, callbacksRef, promises, handlers, port

(* The state of the worker hook: the worker reference, the callback map,  *)
(* the futures handed out by processImage, the runs of the worker's       *)
(* message handler, and the responses posted and not yet delivered.       *)
hookVars == <<workerRef, callbacksRef, promises, handlers, port>>

vars == <<images, globalSettings, isProcessing, ops, runs, nextId, unhandled, last,
          released, issued, now, call, hookVars>>

(* The hook before its effect has run: no worker, no callback, no request. *)
useImageWorker ==
  /\ workerRef = "null"
  /\ callbacksRef = <<>>
  /\ promises = <<>>
  /\ handlers = <<>>
  /\ port = <<>>

----------------------------------------------------------------------------
(* Bounds of the model *)

MaxImages == 2      \* records in the collection at one time
MaxIds == 2         \* ids generated over the registry's lifetime
MaxFiles == 2       \* files handed to one addFiles call
MaxInFlight == 2    \* processSingleImage operations in flight at one time
MaxRuns == 2        \* processImages runs in flight at one time
MaxNow == 2         \* readings of Date.now() after the one at creation

Ids == 1..MaxIds

----------------------------------------------------------------------------
(* Values *)

\* Files offered to addFiles: one image and one that is not an image.
Files == {[name |-> "a.png", type |-> "image/png"], [name |-> "b.txt", type |-> "text/plain"]}

\* file.type.startsWith('image/') over the declared types of Files
startsWithImage(type) == type \in {"image/jpeg", "image/png", "image/webp", "image/avif", "image/gif"}

\* Partial<ImageConfig['settings']> values handed to updateSettings
SettingsPartials == {[format |-> "image/png", width |-> 100]}

\* Partial<GlobalSettings> values handed to updateGlobalSettings
GlobalPartials == {[format |-> "image/png", width |-> 200]}

\* Math.random().toString(36).slice(2, 9) of the draws of generateId
Randoms == {"4fzyo82", "k3x9q0a"}

\* source files, processing modes and target formats handed to the pipeline
SourceFiles == {[name |-> "a.png", type |-> "image/png"], [name |-> "c.jpg", type |-> "image/jpeg"]}

Modes == {"convert", "compress", "both"}

Formats == {"image/jpeg", "image/png", "image/webp", "image/avif", "image/gif"}

\* error.message of the error a stage rejects with
ErrorMessages == {"ProcessFailed"}

defaultGlobalSettings ==
  [format |-> "image/webp", enableCompression |-> TRUE, mode |-> "convert",
   maintainAspectRatio |-> TRUE, scale |-> 1]

----------------------------------------------------------------------------
(* Object helpers *)

\* { ...s, ...p }
Merge(s, p) == [k \in (DOMAIN s) \cup (DOMAIN p) |-> IF k \in DOMAIN p THEN p[k] ELSE s[k]]

\* { ...s, k: undefined }: reading the key yields undefined afterwards
Without(s, k) == [x \in (DOMAIN s) \ {k} |-> s[x]]

Has(s, k) == k \in DOMAIN s

\* `img_${Date.now()}_${Math.random().toString(36).slice(2, 9)}` at clock
\* reading t with the draw random
generateId(t, random) == <<"img", t, random>>

\* images.find((img) => img.id === id): index of the first match, 0 if none
findIndex(imgs, id) ==
  IF \E i \in 1..Len(imgs) : imgs[i].id = id
    THEN CHOOSE i \in 1..Len(imgs) : imgs[i].id = id /\ \A j \in 1..(i - 1) : imgs[j].id # id
    ELSE 0

----------------------------------------------------------------------------
(* The transform stages, as the terms they compute *)

\* quality chosen inside convertImage, in hundredths
quality(format, enableCompression) ==
  IF enableCompression
    THEN IF format \in {"image/jpeg", "image/webp"} THEN 92
         ELSE IF format = "image/avif" THEN 90 ELSE 100
    ELSE 100

\* the blob convertImage resolves with
convertImage(file, format, enableCompression) ==
  [by |-> "convertImage", src |-> file, format |-> format,
   quality |-> quality(format, enableCompression)]

\* the blob compressImage resolves with
compressImage(file) == [by |-> "compressImage", src |-> file]

\* resultBlob of the try block of processSingleImage on (image.file, image.settings)
resultBlob(file, mode, format, enableCompression) ==
  IF mode = "convert" THEN convertImage(file, format, FALSE)
  ELSE IF mode = "compress" THEN compressImage(file)
  ELSE IF enableCompression
    THEN compressImage(convertImage(file, format, enableCompression))
    ELSE convertImage(file, format, enableCompression)

\* the options the worker hands to canvas.convertToBlob for a message
\* { type, mimeType, format, enableCompression }, quality in hundredths
convertToBlobOptions(type, mimeType, format, enableCompression) ==
  IF type \in {"convert", "both"}
    THEN [type |-> format,
          quality |-> IF enableCompression
                        THEN IF format \in {"image/jpeg", "image/webp"} THEN 92
                             ELSE IF format = "image/avif" THEN 90 ELSE 100
                        ELSE 100]
  ELSE IF type = "compress" THEN [type |-> mimeType, quality |-> 92]
  ELSE [type |-> format, quality |-> 100]

\* whether a value is a blob made by a stage, and not a source file
isStageBlob(x) == "by" \in DOMAIN x

\* the stages that made a blob, first to last
RECURSIVE stagesOf(_)
stagesOf(blob) == IF isStageBlob(blob) THEN stagesOf(blob.src) \o <<blob.by>> ELSE <<>>

\* the source file a blob was made from
RECURSIVE sourceOf(_)
sourceOf(blob) == IF isStageBlob(blob) THEN sourceOf(blob.src) ELSE blob

\* format and quality of the encoding that made the bytes of a blob: those of
\* canvas.toBlob in convertImage; compressImage on a source file keeps the type
\* of the file and starts from initialQuality 0.95
RECURSIVE encodingOf(_)
encodingOf(blob) ==
  IF blob.by = "convertImage" THEN [type |-> blob.format, quality |-> blob.quality]
  ELSE IF isStageBlob(blob.src) THEN encodingOf(blob.src)
  ELSE [type |-> blob.src.type, quality |-> 95]

----------------------------------------------------------------------------
(* Object URLs *)

\* URL.createObjectURL(file) for the record created as number n
previewUrlOf(n) == <<"preview", n>>

\* the URLs a record holds: previewUrl, then result.url if it has a result
urlsOf(img) ==
  <<img.previewUrl>> \o (IF "result" \in DOMAIN img THEN <<img.result.url>> ELSE <<>>)

\* the URLs held by the records of a collection
heldUrls(imgs) == UNION {{urlsOf(imgs[i])[j] : j \in 1..Len(urlsOf(imgs[i]))} : i \in 1..Len(imgs)}

\* URL.createObjectURL(resultBlob) in the operation for id.  A record holds one
\* result URL at a time, named by the record; the URL that the record held
\* before, which no record holds from then on, gives up the name to the new one.
resultUrlOf(id) == <<"result", id>>

\* URL.revokeObjectURL(url) for each url of a sequence, in order
RECURSIVE revokeObjectURLs(_, _)
revokeObjectURLs(counts, urls) ==
  IF urls = <<>> THEN counts
  ELSE revokeObjectURLs(counts (+) SetToBag({Head(urls)}), Tail(urls))

\* the revocation counts of the URLs that the records of imgs hold
heldCounts(counts, imgs) ==
  IF counts = EmptyBag THEN EmptyBag
  ELSE [u \in (DOMAIN counts) \cap heldUrls(imgs) |-> counts[u]]

\* the URLs of all records, in the order images.forEach visits them
RECURSIVE allUrls(_)
allUrls(imgs) == IF imgs = <<>> THEN <<>> ELSE urlsOf(Head(imgs)) \o allUrls(Tail(imgs))

----------------------------------------------------------------------------
(* Record updates *)

\* the record addFiles creates for one file
newImage(file, id, previewUrl, gs) ==
  [id |-> id, file |-> file, previewUrl |-> previewUrl, status |-> "idle",
   settings |-> [format |-> gs.format, enableCompression |-> gs.enableCompression,
                 mode |-> gs.mode, maintainAspectRatio |-> gs.maintainAspectRatio,
                 scale |-> gs.scale]]

\* addFiles without its filter
validFilesAll(files) == files

\* validFiles of addFiles
validFiles(files) == SelectSeq(files, LAMBDA f : startsWithImage(f.type))

\* updateSettings without its result: undefined
updateSettingsImageKeepsResult(img, settings) ==
  Merge(img, [settings |-> Merge(img.settings, settings), status |-> "idle"])

\* the record updateSettings writes for the matching id
updateSettingsImage(img, settings) ==
  Without(Merge(img, [settings |-> Merge(img.settings, settings), status |-> "idle"]), "result")

\* applyGlobalSettings without its result: undefined
applyGlobalSettingsImageKeepsResult(img, gs) ==
  Merge(img, [settings |-> Merge(img.settings,
                                 [format |-> gs.format,
                                  enableCompression |-> gs.enableCompression,
                                  mode |-> gs.mode,
                                  maintainAspectRatio |-> gs.maintainAspectRatio,
                                  scale |-> gs.scale]),
              status |-> "idle"])

\* the record applyGlobalSettings writes for every record
applyGlobalSettingsImage(img, gs) ==
  Without(Merge(img, [settings |-> Merge(img.settings,
                                        [format |-> gs.format,
                                         enableCompression |-> gs.enableCompression,
                                         mode |-> gs.mode,
                                         maintainAspectRatio |-> gs.maintainAspectRatio,
                                         scale |-> gs.scale]),
                      status |-> "idle"]), "result")

\* the first set of processSingleImage
setProcessing(imgs, id) ==
  [i \in 1..Len(imgs) |->
     IF imgs[i].id = id THEN Merge(imgs[i], [status |-> "processing"]) ELSE imgs[i]]

\* the set at the end of the try block, had it shown the result as the preview
setDoneAsPreview(imgs, id, blob, url) ==
  [i \in 1..Len(imgs) |->
     IF imgs[i].id = id
       THEN Merge(imgs[i], [status |-> "done", previewUrl |-> url,
                            result |-> [blob |-> blob, url |-> url]])
       ELSE imgs[i]]

\* the set at the end of the try block
setDone(imgs, id, blob, url) ==
  [i \in 1..Len(imgs) |->
     IF imgs[i].id = id
       THEN Merge(imgs[i], [status |-> "done", result |-> [blob |-> blob, url |-> url]])
       ELSE imgs[i]]

\* the set of the catch block
setError(imgs, id, message) ==
  [i \in 1..Len(imgs) |->
     IF imgs[i].id = id
       THEN Merge(imgs[i], [status |-> "error", errorMessage |-> message])
       ELSE imgs[i]]

\* processSingleImage without its try/catch
opPromiseUncaught(ok) == IF ok THEN "fulfilled" ELSE "rejected"

\* how the promise of processSingleImage settles when its pipeline succeeded (ok) or threw
opPromise(ok) == "fulfilled"

\* processImages without its filter
pendingImagesAll(imgs) == imgs

\* pendingImages of processImages
pendingImages(imgs) == SelectSeq(imgs, LAMBDA img : img.status # "done")

\* the operation one processSingleImage(id) call leaves in flight: what its
\* continuation reads of the image found at the call
launched(imgs, id, run) ==
  LET image == imgs[findIndex(imgs, id)]
  IN [id |-> id, file |-> image.file, mode |-> image.settings.mode,
      format |-> image.settings.format,
      enableCompression |-> image.settings.enableCompression, run |-> run]

\* pendingImages.map((img) => processSingleImage(img.id)): the calls run one after
\* the other, each up to its first await
RECURSIVE launchAll(_, _, _, _)
launchAll(imgs, inflight, pending, run) ==
  IF pending = <<>> THEN <<imgs, inflight>>
  ELSE LET id == Head(pending).id
       IN IF findIndex(imgs, id) = 0
            THEN launchAll(imgs, inflight, Tail(pending), run)
            ELSE launchAll(setProcessing(imgs, id),
                           inflight (+) SetToBag({launched(imgs, id, run)}),
                           Tail(pending), run)

----------------------------------------------------------------------------
(* Initial state: create() *)

Init ==
  /\ images = <<>>
  /\ globalSettings = defaultGlobalSettings
  /\ isProcessing = FALSE
  /\ ops = EmptyBag
  /\ runs = {}
  /\ nextId = 1
  /\ unhandled = FALSE
  /\ last = [op |-> "create"]
  /\ released = EmptyBag
  /\ issued = {}
  /\ now = 0
  /\ call = [fn |-> "none"]
  /\ useImageWorker

----------------------------------------------------------------------------
(* Operations of the store *)

\* the new records put in front of the collection
prepended(imgs, newImages) == newImages \o imgs

\* [...state.images, ...newImages] of addFiles
appended(imgs, newImages) == imgs \o newImages

\* ids[i] is what generateId() returns for the i-th valid file
addFiles(files, ids) ==
  LET valid == validFiles(files)
      fresh == [i \in 1..Len(valid) |->
                  newImage(valid[i], ids[i], previewUrlOf(nextId + i - 1), globalSettings)]
  IN /\ Len(images) + Len(valid) <= MaxImages
     /\ nextId + Len(valid) - 1 <= MaxIds
     /\ images' = appended(images, fresh)
     /\ nextId' = nextId + Len(valid)
     /\ issued' = issued \cup {ids[i] : i \in 1..Len(valid)}
     /\ released' = heldCounts(released, images)
     /\ last' = [op |-> "addFiles", files |-> files]
     /\ UNCHANGED <<globalSettings, isProcessing, ops, runs, unhandled, now, call, hookVars>>

\* removeImage releasing the URLs of the record and leaving it in the collection
removeImageRevokesOnly(id) ==
  LET i == findIndex(images, id)
  IN /\ images' = images
     /\ released' = revokeObjectURLs(heldCounts(released, images),
                                     IF i = 0 THEN <<>> ELSE urlsOf(images[i]))
     /\ last' = [op |-> "removeImage", id |-> id]
     /\ UNCHANGED <<globalSettings, isProcessing, ops, runs, nextId, unhandled, issued, now, call, hookVars>>

\* removeImage dropping the records before the one with the id instead of it
removeImageUpTo(id) ==
  LET i == findIndex(images, id)
  IN /\ images' = IF i = 0 THEN images ELSE SubSeq(images, i, Len(images))
     /\ released' = revokeObjectURLs(heldCounts(released, images),
                                     IF i = 0 THEN <<>> ELSE urlsOf(images[i]))
     /\ last' = [op |-> "removeImage", id |-> id]
     /\ UNCHANGED <<globalSettings, isProcessing, ops, runs, nextId, unhandled, issued, now, call, hookVars>>

removeImage(id) ==
  LET i == findIndex(images, id)
  IN /\ images' = SelectSeq(images, LAMBDA img : img.id # id)
     /\ released' = revokeObjectURLs(heldCounts(released, images),
                                     IF i = 0 THEN <<>> ELSE urlsOf(images[i]))
     /\ last' = [op |-> "removeImage", id |-> id]
     /\ UNCHANGED <<globalSettings, isProcessing, ops, runs, nextId, unhandled, issued, now, call, hookVars>>

updateSettings(id, settings) ==
  /\ images' = [i \in 1..Len(images) |->
                  IF images[i].id = id
                    THEN updateSettingsImage(images[i], settings)
                    ELSE images[i]]
  /\ released' = heldCounts(released, images)
  /\ last' = [op |-> "updateSettings", id |-> id, settings |-> settings]
  /\ UNCHANGED <<globalSettings, isProcessing, ops, runs, nextId, unhandled, issued, now, call, hookVars>>

\* updateGlobalSettings writing the partial into every record as well
updateGlobalSettingsIntoRecords(settings) ==
  /\ globalSettings' = Merge(globalSettings, settings)
  /\ images' = [i \in 1..Len(images) |->
                  Merge(images[i], [settings |-> Merge(images[i].settings, settings)])]
  /\ released' = heldCounts(released, images)
  /\ last' = [op |-> "updateGlobalSettings", settings |-> settings]
  /\ UNCHANGED <<isProcessing, ops, runs, nextId, unhandled, issued, now, call, hookVars>>

updateGlobalSettings(settings) ==
  /\ globalSettings' = Merge(globalSettings, settings)
  /\ released' = heldCounts(released, images)
  /\ last' = [op |-> "updateGlobalSettings", settings |-> settings]
  /\ UNCHANGED <<images, isProcessing, ops, runs, nextId, unhandled, issued, now, call, hookVars>>

applyGlobalSettings ==
  /\ images' = [i \in 1..Len(images) |-> applyGlobalSettingsImage(images[i], globalSettings)]
  /\ released' = heldCounts(released, images)
  /\ last' = [op |-> "applyGlobalSettings", again |-> (last.op = "applyGlobalSettings")]
  /\ UNCHANGED <<globalSettings, isProcessing, ops, runs, nextId, unhandled, issued, now, call, hookVars>>

\* processSingleImage(id) up to its first await
processSingleImage(id) ==
  /\ last' = [op |-> "processSingleImage", id |-> id]
  /\ IF findIndex(images, id) = 0
       THEN UNCHANGED <<images, ops>>
       ELSE /\ BagCardinality(ops) < MaxInFlight
            /\ images' = setProcessing(images, id)
            /\ ops' = ops (+) SetToBag({launched(images, id, 0)})
  /\ released' = heldCounts(released, images)
  /\ UNCHANGED <<globalSettings, isProcessing, runs, nextId, unhandled, issued, now, call, hookVars>>

\* processImages() up to its await; with nothing pending Promise.all([]) resolves
\* in the same task and the flag is cleared again before any other handler runs
processImages ==
  LET pending == pendingImages(images)
      run == CHOOSE r \in 1..MaxRuns :
               /\ r \notin runs
               /\ \A op \in BagToSet(ops) : op.run # r
               /\ \A q \in 1..(r - 1) : q \in runs \/ \E op \in BagToSet(ops) : op.run = q
      after == launchAll(images, ops, pending, run)
  IN /\ \E r \in 1..MaxRuns : r \notin runs /\ \A op \in BagToSet(ops) : op.run # r
     /\ BagCardinality(ops) + Len(pending) <= MaxInFlight
     /\ images' = after[1]
     /\ ops' = after[2]
     /\ IF pending = <<>>
          THEN isProcessing' = FALSE /\ runs' = runs
          ELSE isProcessing' = TRUE /\ runs' = runs \cup {run}
     /\ released' = heldCounts(released, images)
     /\ last' = [op |-> "processImages"]
     /\ UNCHANGED <<globalSettings, nextId, unhandled, issued, now, call, hookVars>>

\* clearAll revoking the URLs and leaving the records in the collection
clearAllKeepsRecords ==
  /\ images' = images
  /\ released' = revokeObjectURLs(heldCounts(released, images), allUrls(images))
  /\ last' = [op |-> "clearAll"]
  /\ UNCHANGED <<globalSettings, isProcessing, ops, runs, nextId, unhandled, issued, now, call, hookVars>>

clearAll ==
  /\ images' = <<>>
  /\ released' = revokeObjectURLs(heldCounts(released, images), allUrls(images))
  /\ last' = [op |-> "clearAll"]
  /\ UNCHANGED <<globalSettings, isProcessing, ops, runs, nextId, unhandled, issued, now, call, hookVars>>

----------------------------------------------------------------------------
(* Asynchronous completions *)

\* what follows the settling of operation op within the same task: the promise of
\* processSingleImage settles, and a processImages run whose promises have all
\* fulfilled sets isProcessing to false; a rejected promise rejects Promise.all
\* and the run ends without clearing the flag
settleRun(op, ok) ==
  LET rest == ops (-) SetToBag({op})
  IN /\ ops' = rest
     /\ IF opPromise(ok) = "fulfilled"
          THEN /\ unhandled' = unhandled
               /\ IF op.run \in runs /\ \A other \in BagToSet(rest) : other.run # op.run
                    THEN runs' = runs \ {op.run} /\ isProcessing' = FALSE
                    ELSE UNCHANGED <<runs, isProcessing>>
          ELSE /\ unhandled' = TRUE
               /\ runs' = runs \ {op.run}
               /\ UNCHANGED isProcessing

\* no addFiles, removeImage or settings call has followed the latest clearAll
sinceClearAll(l) == l.op = "clearAll" \/ (l.op \in {"opSucceeds", "opFails"} /\ l.cleared)

\* the awaited transforms of operation op resolve: the rest of the try block
opSucceeds(op) ==
  LET url == resultUrlOf(op.id)
  IN /\ images' = setDone(images, op.id,
                          resultBlob(op.file, op.mode, op.format, op.enableCompression), url)
     /\ settleRun(op, TRUE)
     /\ released' = heldCounts(released, images)
     /\ last' = [op |-> "opSucceeds", id |-> op.id, run |-> op.run, url |-> url,
                 cleared |-> sinceClearAll(last)]
     /\ UNCHANGED <<globalSettings, nextId, issued, now, call, hookVars>>

\* an awaited transform of operation op rejects: the catch block
opFails(op, message) ==
     /\ images' = setError(images, op.id, message)
     /\ settleRun(op, FALSE)
     /\ released' = heldCounts(released, images)
     /\ last' = [op |-> "opFails", id |-> op.id, run |-> op.run,
                 cleared |-> sinceClearAll(last)]
     /\ UNCHANGED <<globalSettings, nextId, issued, now, call, hookVars>>

----------------------------------------------------------------------------

Next ==
  \/ \E n \in 1..MaxFiles : \E files \in [1..n -> Files] :
       addFiles(files, [i \in 1..Len(validFiles(files)) |-> nextId + i - 1])
  \/ \E id \in Ids : removeImage(id)
  \/ \E id \in Ids : \E settings \in SettingsPartials : updateSettings(id, settings)
  \/ \E settings \in GlobalPartials : updateGlobalSettings(settings)
  \/ applyGlobalSettings
  \/ \E id \in Ids : processSingleImage(id)
  \/ processImages
  \/ clearAll
  \/ \E op \in BagToSet(ops) : opSucceeds(op)
  \/ \E op \in BagToSet(ops) : \E message \in ErrorMessages : opFails(op, message)

Spec == Init /\ [][Next]_vars

\* The store under the operations the pages offer: the dropzone, the remove
\* button of a card, the clear button, the controls of the panel, the
\* process/retry button of a card and the start button

\* the start button taken for enabled whenever there are records
startEnabledWhileProcessing == images # <<>>

\* disabled={!hasImages || isProcessing} of the start button
startEnabled == images # <<>> /\ ~isProcessing

\* the onClick of the start button: applyGlobalSettings() and processImages()
\* up to its await, in one task
start ==
  LET applied == [i \in 1..Len(images) |->
                    applyGlobalSettingsImage(images[i], globalSettings)]
      pending == pendingImages(applied)
      run == CHOOSE r \in 1..MaxRuns :
               /\ r \notin runs
               /\ \A op \in BagToSet(ops) : op.run # r
               /\ \A q \in 1..(r - 1) : q \in runs \/ \E op \in BagToSet(ops) : op.run = q
      after == launchAll(applied, ops, pending, run)
  IN /\ startEnabled
     /\ \E r \in 1..MaxRuns : r \notin runs /\ \A op \in BagToSet(ops) : op.run # r
     /\ BagCardinality(ops) + Len(pending) <= MaxInFlight
     /\ images' = after[1]
     /\ ops' = after[2]
     /\ IF pending = <<>>
          THEN isProcessing' = FALSE /\ runs' = runs
          ELSE isProcessing' = TRUE /\ runs' = runs \cup {run}
     /\ released' = heldCounts(released, images)
     /\ last' = [op |-> "start", before |-> images]
     /\ UNCHANGED <<globalSettings, nextId, unhandled, issued, now, call, hookVars>>

\* the process/retry button of a card, rendered for idle and error records
retry(id) ==
  /\ findIndex(images, id) # 0
  /\ images[findIndex(images, id)].status \in {"idle", "error"}
  /\ processSingleImage(id)

\* the clear button, rendered while there are records
clear == images # <<>> /\ clearAll

NextUI ==
  \/ \E n \in 1..MaxFiles : \E files \in [1..n -> Files] :
       addFiles(files, [i \in 1..Len(validFiles(files)) |-> nextId + i - 1])
  \/ \E id \in Ids : removeImage(id)
  \/ \E settings \in GlobalPartials : updateGlobalSettings(settings)
  \/ \E id \in Ids : retry(id)
  \/ start
  \/ clear
  \/ \E op \in BagToSet(ops) : opSucceeds(op)
  \/ \E op \in BagToSet(ops) : \E message \in ErrorMessages : opFails(op, message)

SpecUI == Init /\ [][NextUI]_vars

\* The store without processImages, fed with two different image files and
\* one file that is no image, so that the order of the files of one addFiles
\* shows in the records
OrderFiles == Files \cup {[name |-> "c.jpg", type |-> "image/jpeg"]}

NextOrder ==
  \/ \E n \in 1..MaxFiles : \E files \in [1..n -> OrderFiles] :
       addFiles(files, [i \in 1..Len(validFiles(files)) |-> nextId + i - 1])
  \/ \E id \in Ids : removeImage(id)
  \/ \E id \in Ids : \E settings \in SettingsPartials : updateSettings(id, settings)
  \/ \E settings \in GlobalPartials : updateGlobalSettings(settings)
  \/ applyGlobalSettings
  \/ \E id \in Ids : processSingleImage(id)
  \/ clearAll
  \/ \E op \in BagToSet(ops) : opSucceeds(op)
  \/ \E op \in BagToSet(ops) : \E message \in ErrorMessages : opFails(op, message)

SpecOrder == Init /\ [][NextOrder]_vars

----------------------------------------------------------------------------
(* The transform pipeline on one input: the try block of processSingleImage *)
(* and the encoding choice of the worker, for every source file, mode,      *)
(* target format and compression flag                                      *)

PipelineInputs ==
  [fn : {"input"}, file : SourceFiles, mode : Modes, format : Formats,
   enableCompression : BOOLEAN]

InitPipeline ==
  /\ images = <<>>
  /\ globalSettings = defaultGlobalSettings
  /\ isProcessing = FALSE
  /\ ops = EmptyBag
  /\ runs = {}
  /\ nextId = 1
  /\ unhandled = FALSE
  /\ last = [op |-> "create"]
  /\ released = EmptyBag
  /\ issued = {}
  /\ now = 0
  /\ call \in PipelineInputs
  /\ useImageWorker

\* the try block of processSingleImage computes resultBlob for the input
tryBlock ==
  /\ call.fn = "input"
  /\ call' = Merge(call, [fn |-> "processSingleImage",
                          resultBlob |-> resultBlob(call.file, call.mode, call.format,
                                                    call.enableCompression)])
  /\ UNCHANGED <<images, globalSettings, isProcessing, ops, runs, nextId, unhandled, last,
                 released, issued, now, hookVars>>

\* self.onmessage of the worker chooses the encoding for the input
onmessage ==
  /\ call.fn = "input"
  /\ call' = Merge(call, [fn |-> "onmessage",
                          options |-> convertToBlobOptions(call.mode, call.file.type,
                                                           call.format,
                                                           call.enableCompression)])
  /\ UNCHANGED <<images, globalSettings, isProcessing, ops, runs, nextId, unhandled, last,
                 released, issued, now, hookVars>>

NextPipeline == tryBlock \/ onmessage

SpecPipeline == InitPipeline /\ [][NextPipeline]_vars

----------------------------------------------------------------------------
(* The ids of generateId: the collection under addFiles, removeImage and   *)
(* clearAll, with the clock and the random draws as inputs                 *)

\* a millisecond passes
tick ==
  /\ now < MaxNow
  /\ now' = now + 1
  /\ last' = [op |-> "tick"]
  /\ UNCHANGED <<images, globalSettings, isProcessing, ops, runs, nextId, unhandled,
                 released, issued, call, hookVars>>

NextIds ==
  \/ tick
  \/ \E n \in 1..MaxFiles : \E files \in [1..n -> Files] :
       \E randoms \in [1..Len(validFiles(files)) -> Randoms] :
         addFiles(files, [i \in 1..Len(validFiles(files)) |-> generateId(now, randoms[i])])
  \/ \E i \in 1..Len(images) : removeImage(images[i].id)
  \/ clearAll

SpecIds == Init /\ [][NextIds]_vars

----------------------------------------------------------------------------
(* exportImages on a collection of processed and unprocessed records.  A    *)
(* file name is the sequence of its characters.                            *)

MaxExported == 2    \* records in the collection exportImages reads

\* the characters /[a-zA-Z0-9_\-一-龥.]/ matches, over the characters
\* of ExportFiles and SanitizeChars; "龥" is U+9FA5, the last of the class
keptChars ==
  {"a", "b", "g", "j", "n", "p", "v", "Z", "2", "5", "_", "-", ".", "图", "龥"}

\* the characters of the class, the others taken out instead of replaced
sanitizeFileNameDropping(name) == SelectSeq(name, LAMBDA c : c \in keptChars)

\* name.replace(/[^a-zA-Z0-9_\-一-龥.]/g, '_')
sanitizeFileName(name) ==
  [i \in 1..Len(name) |-> IF name[i] \in keptChars THEN name[i] ELSE "_"]

\* where /\.[^/.]+$/ matches in a name: the last dot, if characters other
\* than a slash follow it; 0 if there is no match
extensionStart(name) ==
  LET dots == {i \in 1..Len(name) : name[i] = "."}
  IN IF dots = {} THEN 0
     ELSE LET i == CHOOSE d \in dots : \A e \in dots : e <= d
          IN IF i < Len(name) /\ \A j \in (i + 1)..Len(name) : name[j] # "/" THEN i ELSE 0

\* file.name.replace(/\.[^/.]+$/, '')
baseName(name) ==
  IF extensionStart(name) = 0 THEN name ELSE SubSeq(name, 1, extensionStart(name) - 1)

\* map[format] || 'png'
getExtension(format) ==
  IF format = "image/jpeg" THEN <<"j", "p", "g">>
  ELSE IF format = "image/png" THEN <<"p", "n", "g">>
  ELSE IF format = "image/webp" THEN <<"w", "e", "b", "p">>
  ELSE IF format = "image/avif" THEN <<"a", "v", "i", "f">>
  ELSE IF format = "image/gif" THEN <<"g", "i", "f">>
  ELSE <<"p", "n", "g">>

\* `${sanitizeFileName(baseName)}_purepixel.${ext}` with the extension of a format
exportName(name, format) ==
  sanitizeFileName(baseName(name))
    \o <<"_", "p", "u", "r", "e", "p", "i", "x", "e", "l", ".">> \o getExtension(format)

\* fileName of exportImages for a record
fileName(img) == exportName(img.file.name, img.settings.format)

\* zip.file(fileName, img.result.blob) for each record in turn: the entries of
\* the archive by name, a later entry replacing an earlier one of the same name
RECURSIVE zipFiles(_)
zipFiles(doneImages) ==
  IF doneImages = <<>> THEN [n \in {} |-> n]
  ELSE LET img == doneImages[Len(doneImages)]
       IN Merge(zipFiles(SubSeq(doneImages, 1, Len(doneImages) - 1)),
                [n \in {fileName(img)} |-> img.result.blob])

\* doneImages of exportImages
doneImages(imgs) == SelectSeq(imgs, LAMBDA img : img.status = "done" /\ Has(img, "result"))

\* the downloads exportImages starts for a collection at clock reading t
downloads(imgs, t) ==
  LET done == doneImages(imgs)
  IN IF Len(done) = 0 THEN <<>>
     ELSE IF Len(done) = 1
       THEN <<[download |-> fileName(done[1]), href |-> done[1].result.url]>>
     ELSE <<[download |-> <<"purepixel_images_", t, ".zip">>, zip |-> zipFiles(done)]>>

\* files whose names differ, coincide after sanitizing, or carry two extensions
ExportFiles ==
  {[name |-> <<"a", ".", "p", "n", "g">>, type |-> "image/png"],
   [name |-> <<"a", " ", "b", ".", "j", "p", "g">>, type |-> "image/jpeg"],
   [name |-> <<"a", "_", "b", ".", "j", "p", "g">>, type |-> "image/jpeg"],
   [name |-> <<"图", ".", "v", "2", ".", "p", "n", "g">>, type |-> "image/png"]}

\* target formats of the exported records
ExportFormats == {"image/webp", "image/jpeg"}

\* the record number i of the collection: added from file, given mode and
\* format by updateSettings, and processed to done or not
exportRecord(i, file, mode, format, done) ==
  LET added == newImage(file, i, previewUrlOf(i), defaultGlobalSettings)
      set == updateSettingsImage(added, [mode |-> mode, format |-> format])
  IN IF done
       THEN setDone(<<set>>, i, resultBlob(file, mode, format, set.settings.enableCompression),
                    resultUrlOf(i))[1]
       ELSE set

InitExport ==
  /\ \E n \in 0..MaxExported :
       \E choice \in [1..n -> ExportFiles \X Modes \X ExportFormats \X BOOLEAN] :
         images = [i \in 1..n |->
                     exportRecord(i, choice[i][1], choice[i][2], choice[i][3], choice[i][4])]
  /\ globalSettings = defaultGlobalSettings
  /\ isProcessing = FALSE
  /\ ops = EmptyBag
  /\ runs = {}
  /\ nextId = MaxExported + 1
  /\ unhandled = FALSE
  /\ last = [op |-> "create"]
  /\ released = EmptyBag
  /\ issued = 1..MaxExported
  /\ now = 0
  /\ call = [fn |-> "none"]
  /\ useImageWorker

exportImages ==
  /\ call.fn = "none"
  /\ call' = [fn |-> "exportImages", downloads |-> downloads(images, now)]
  /\ UNCHANGED <<images, globalSettings, isProcessing, ops, runs, nextId, unhandled, last,
                 released, issued, now, hookVars>>

NextExport == exportImages

SpecExport == InitExport /\ [][NextExport]_vars

\* sanitizeFileName on every name of up to MaxNameLen characters, applied to
\* the name and then to its own result

MaxNameLen == 3     \* characters of a name

\* a letter of each case, a digit, the three punctuation marks of the class,
\* two ideographs of the class, and outside it: U+9FA6 (the ideograph after
\* the last of the class), a blank, a slash and an accented letter
SanitizeChars == {"a", "Z", "5", "_", "-", ".", "图", "龥", "龦", " ", "/", "é"}

SanitizeNames == UNION {[1..n -> SanitizeChars] : n \in 0..MaxNameLen}

InitSanitize ==
  /\ images = <<>>
  /\ globalSettings = defaultGlobalSettings
  /\ isProcessing = FALSE
  /\ ops = EmptyBag
  /\ runs = {}
  /\ nextId = 1
  /\ unhandled = FALSE
  /\ last = [op |-> "create"]
  /\ released = EmptyBag
  /\ issued = {}
  /\ now = 0
  /\ call \in [fn : {"input"}, name : SanitizeNames]
  /\ useImageWorker

\* sanitizeFileName(name) on the input
sanitize ==
  /\ call.fn = "input"
  /\ call' = [fn |-> "sanitizeFileName", name |-> call.name,
              result |-> sanitizeFileName(call.name), of |-> call.name]
  /\ UNCHANGED <<images, globalSettings, isProcessing, ops, runs, nextId, unhandled, last,
                 released, issued, now, hookVars>>

\* sanitizeFileName on the result of the first call
sanitizeAgain ==
  /\ call.fn = "sanitizeFileName"
  /\ call.name = call.of
  /\ call' = [fn |-> "sanitizeFileName", name |-> call.result,
              result |-> sanitizeFileName(call.result), of |-> call.of,
              again |-> TRUE]
  /\ UNCHANGED <<images, globalSettings, isProcessing, ops, runs, nextId, unhandled, last,
                 released, issued, now, hookVars>>

NextSanitize == sanitize \/ sanitizeAgain

SpecSanitize == InitSanitize /\ [][NextSanitize]_vars

----------------------------------------------------------------------------
(* One run of processSingleImage, event by event: the call of convertImage  *)
(* waits for the load or error event of the decoded source, sizes and draws *)
(* the canvas, calls canvas.toBlob and waits for its callback; the call of  *)
(* compressImage waits for the library.  call holds the record, its status, *)
(* the canvas, the canvas.toBlob calls made and the point the run is at.    *)

\* pixel widths and heights of the decoded source (img.width, img.height)
Widths == {1, 2000, 5000}

Heights == {1, 1000, 5000}

\* settings.scale as numerator and denominator: 0.5, 1, 2
Scales == {<<1, 2>>, <<1, 1>>, <<2, 1>>}

\* target formats of the run
TransformFormats == {"image/webp", "image/avif", "image/png"}

\* the records handed to the run and the runtime it runs on: avif tells whether
\* the runtime can encode AVIF
TransformInputs ==
  [fn : {"processSingleImage"}, at : {"start"}, status : {"idle"},
   image : [file : [name : {"a.png"}, type : {"image/png"}, width : Widths, height : Heights],
            settings : [format : TransformFormats, enableCompression : BOOLEAN, mode : Modes,
                        maintainAspectRatio : {TRUE}, scale : Scales]],
   runtime : [avif : BOOLEAN],
   toBlob : {<<>>}]

InitTransform ==
  /\ images = <<>>
  /\ globalSettings = defaultGlobalSettings
  /\ isProcessing = FALSE
  /\ ops = EmptyBag
  /\ runs = {}
  /\ nextId = 1
  /\ unhandled = FALSE
  /\ last = [op |-> "create"]
  /\ released = EmptyBag
  /\ issued = {}
  /\ now = 0
  /\ call \in TransformInputs
  /\ useImageWorker

\* the enableCompression argument of the convertImage call of a mode
convertImageFlag(settings) ==
  IF settings.mode = "convert" THEN FALSE ELSE settings.enableCompression

\* canvas.width = img.width; canvas.height = img.height
canvasSize(width, height) == [width |-> width, height |-> height]

\* the status is set to processing and the first stage of the mode is called
startRun ==
  /\ call.at = "start"
  /\ call' = Merge(call, [status |-> "processing",
                          at |-> IF call.image.settings.mode = "compress"
                                   THEN "compressImage" ELSE "img.src"])
  /\ UNCHANGED <<images, globalSettings, isProcessing, ops, runs, nextId, unhandled, last,
                 released, issued, now, hookVars>>

\* The messages of the errors are written NoCanvasContext, ImageLoadFailed,
\* ConversionFailed and ProcessFailed.

\* img.onload: without a 2d context the transform rejects, otherwise the canvas
\* is sized, drawn and handed to canvas.toBlob with the format and quality
onload(ctx) ==
  /\ call.at = "img.src"
  /\ call' = IF ctx
               THEN Merge(call,
                      [at |-> "canvas.toBlob",
                       canvas |-> canvasSize(call.image.file.width, call.image.file.height),
                       toBlob |-> Append(call.toBlob,
                                    [type |-> call.image.settings.format,
                                     quality |-> quality(call.image.settings.format,
                                                         convertImageFlag(call.image.settings))])])
               ELSE Merge(call, [at |-> "settled", status |-> "error",
                                 errorMessage |-> "NoCanvasContext"])
  /\ UNCHANGED <<images, globalSettings, isProcessing, ops, runs, nextId, unhandled, last,
                 released, issued, now, hookVars>>

\* img.onerror
onerror ==
  /\ call.at = "img.src"
  /\ call' = Merge(call, [at |-> "settled", status |-> "error",
                          errorMessage |-> "ImageLoadFailed"])
  /\ UNCHANGED <<images, globalSettings, isProcessing, ops, runs, nextId, unhandled, last,
                 released, issued, now, hookVars>>

\* the callback of canvas.toBlob with a blob (TRUE) or null (FALSE): a blob
\* resolves convertImage, and the run goes on to compressImage in mode both
\* with the flag set and is done otherwise; null rejects it
toBlobCallback(blob) ==
  LET settings == call.image.settings
      converted == convertImage(call.image.file, settings.format, convertImageFlag(settings))
  IN /\ call.at = "canvas.toBlob"
     /\ call' = IF ~blob
                  THEN Merge(call, [at |-> "settled", status |-> "error",
                                    errorMessage |-> "ConversionFailed"])
                ELSE IF settings.mode = "both" /\ settings.enableCompression
                  THEN Merge(call, [at |-> "compressImage"])
                ELSE Merge(call, [at |-> "settled", status |-> "done",
                                  result |-> [blob |-> converted]])
     /\ UNCHANGED <<images, globalSettings, isProcessing, ops, runs, nextId, unhandled, last,
                    released, issued, now, hookVars>>

\* imageCompression resolves (TRUE) or rejects (FALSE)
imageCompression(ok) ==
  LET settings == call.image.settings
  IN /\ call.at = "compressImage"
     /\ call' = IF ok
                  THEN Merge(call, [at |-> "settled", status |-> "done",
                                    result |-> [blob |-> resultBlob(call.image.file, settings.mode,
                                                                    settings.format,
                                                                    settings.enableCompression)]])
                  ELSE Merge(call, [at |-> "settled", status |-> "error",
                                    errorMessage |-> "ProcessFailed"])
     /\ UNCHANGED <<images, globalSettings, isProcessing, ops, runs, nextId, unhandled, last,
                    released, issued, now, hookVars>>

NextTransform ==
  \/ startRun
  \/ \E ctx \in BOOLEAN : onload(ctx)
  \/ onerror
  \/ \E blob \in BOOLEAN : toBlobCallback(blob)
  \/ \E ok \in BOOLEAN : imageCompression(ok)

SpecTransform == InitTransform /\ [][NextTransform]_vars

\* The run does what it can do by itself: it starts, the callback of
\* canvas.toBlob is always invoked, and the library settles.  The load and
\* error events of the source come from the decoder and no timer of the
\* transform stands in for them.
SpecTransformFair ==
  /\ SpecTransform
  /\ WF_vars(startRun)
  /\ WF_vars(\E blob \in BOOLEAN : toBlobCallback(blob))
  /\ WF_vars(\E ok \in BOOLEAN : imageCompression(ok))

----------------------------------------------------------------------------
(* The worker hook: useImageWorker (the effect that creates the worker,    *)
(* its cleanup, the dispatcher workerRef.current.onmessage, processImage   *)
(* and its FileReader) and the worker's message handler self.onmessage,    *)
(* one posted response at a time.  A request is the future processImage    *)
(* returned; requests are numbered in the order of the calls.  The worker  *)
(* runs its handler once per message, and the runs interleave at their     *)
(* awaits; the responses reach the dispatcher in the order they were       *)
(* posted.                                                                 *)

MaxRequests == 2    \* calls of processImage over the hook's lifetime
MaxQueued == 1      \* responses posted by the worker and not yet delivered

RequestIds == {"x", "y"}

\* the file of each request, in the order of the calls
HookFiles == <<[name |-> "a.png", type |-> "image/png"],
               [name |-> "c.jpg", type |-> "image/jpeg"]>>

\* the messages of the errors; the source's texts are written by name
WorkerErrors == {"ConversionFailed"}

\* the progress values self.onmessage posts, in the order of its statements
progressPosts == <<10, 30, 50, 70, 90>>

\* the numbers of progress responses after which a step of self.onmessage can
\* throw: createImageBitmap, the missing canvas context, convertToBlob
throwingSteps == {1, 2, 4}

isTerminal(response) == response.type \in {"success", "error"}

\* whether a run of self.onmessage has posted its terminal response
finished(handler) ==
  handler.posts # <<>> /\ isTerminal(handler.posts[Len(handler.posts)])

\* the message reader.onload posts for a request
messageOf(request) ==
  [type |-> request.mode, id |-> request.id, imageData |-> request.file,
   mimeType |-> request.file.type, format |-> request.format,
   enableCompression |-> request.enableCompression]

\* the result self.onmessage posts for a message: the blob convertToBlob made
resultOf(message) ==
  [blob |-> [by |-> "convertToBlob", src |-> message.imageData,
             options |-> convertToBlobOptions(message.type, message.mimeType,
                                              message.format,
                                              message.enableCompression)]]

settled(request) == request.status \in {"resolved", "rejected"}

resolve(request, value) ==
  IF settled(request) THEN request
  ELSE Merge(request, [status |-> "resolved", value |-> value])

reject(request, reason) ==
  IF settled(request) THEN request
  ELSE Merge(request, [status |-> "rejected", reason |-> reason])

\* the callback reader.onload registers for a request, applied to a response
callback(request, response) ==
  IF response.type = "progress" /\ request.onProgress
    THEN [request EXCEPT !.progress = Append(@, response.progress)]
  ELSE IF response.type = "success" /\ Has(response, "result")
    THEN resolve(request, response.result)
  ELSE IF response.type = "error"
    THEN reject(request, response.error)
  ELSE request

\* callbacksRef.current.get(id): the request whose callback is registered, or 0
getCallbackAny(id) ==
  IF DOMAIN callbacksRef = {} THEN 0
  ELSE callbacksRef[CHOOSE i \in DOMAIN callbacksRef : TRUE]

getCallback(id) == IF id \in DOMAIN callbacksRef THEN callbacksRef[id] ELSE 0

\* callbacksRef.current.delete(id) after a terminal response
deleteCallbackNever(id, response) == callbacksRef

deleteCallback(id, response) ==
  IF isTerminal(response) THEN Without(callbacksRef, id) ELSE callbacksRef

InitHook ==
  /\ images = <<>>
  /\ globalSettings = defaultGlobalSettings
  /\ isProcessing = FALSE
  /\ ops = EmptyBag
  /\ runs = {}
  /\ nextId = 1
  /\ unhandled = FALSE
  /\ last = [op |-> "create"]
  /\ released = EmptyBag
  /\ issued = {}
  /\ now = 0
  /\ call = [fn |-> "none"]
  /\ useImageWorker

storeVars == <<images, globalSettings, isProcessing, ops, runs, nextId, unhandled, last,
               released, issued, now, call>>

\* the effect creates the worker and installs the dispatcher
effect ==
  /\ workerRef = "null"
  /\ workerRef' = "worker"
  /\ UNCHANGED <<storeVars, callbacksRef, promises, handlers, port>>

\* the cleanup of the effect terminates the worker: its handler runs end, and
\* the responses it had posted are delivered or not; the callbacks stay.
\* abandoned records, for the properties, which requests were unsettled at a
\* cleanup; the code keeps no such mark
cleanup(delivered) ==
  /\ workerRef # "null"
  /\ workerRef' = "null"
  /\ handlers' = <<>>
  /\ port' = IF delivered THEN port ELSE <<>>
  /\ promises' = [k \in DOMAIN promises |->
                    IF settled(promises[k]) THEN promises[k]
                    ELSE [promises[k] EXCEPT !.abandoned = TRUE]]
  /\ UNCHANGED <<storeVars, callbacksRef>>

\* processImage returns a future: rejected at once without a worker, else
\* pending while the file is read
processImage(id, onProgress) ==
  /\ Len(promises) < MaxRequests
  /\ LET request == [id |-> id, file |-> HookFiles[Len(promises) + 1],
                     format |-> "image/webp",
                     mode |-> "convert", enableCompression |-> TRUE,
                     onProgress |-> onProgress, status |-> "pending",
                     reader |-> "none", progress |-> <<>>,
                     abandoned |-> FALSE]
     IN  promises' = Append(promises,
                            IF workerRef = "null"
                              THEN reject(request, "WorkerNotInitialised")
                            ELSE [request EXCEPT !.reader = "reading"])
  /\ UNCHANGED <<storeVars, workerRef, callbacksRef, handlers, port>>

\* reader.onload registers the callback under the id and posts the message
\* to the worker, if there still is one
reader_onload(k) ==
  /\ k \in DOMAIN promises
  /\ promises[k].reader = "reading"
  /\ promises' = [promises EXCEPT ![k].reader = "loaded"]
  /\ callbacksRef' = Merge(callbacksRef, [i \in {promises[k].id} |-> k])
  /\ handlers' = IF workerRef = "null" THEN handlers
                 ELSE Merge(handlers, [i \in {k} |-> [message |-> messageOf(promises[k]),
                                                      posts |-> <<>>]])
  /\ UNCHANGED <<storeVars, workerRef, port>>

\* reader.onerror rejects the future
reader_onerror(k) ==
  /\ k \in DOMAIN promises
  /\ promises[k].reader = "reading"
  /\ promises' = [promises EXCEPT ![k] = reject([@ EXCEPT !.reader = "failed"],
                                                "FileReadFailed")]
  /\ UNCHANGED <<storeVars, workerRef, callbacksRef, handlers, port>>

\* self.postMessage of a run of self.onmessage
postMessage(k, response) ==
  /\ Len(port) < MaxQueued
  /\ handlers' = [handlers EXCEPT ![k].posts = Append(@, response)]
  /\ port' = Append(port, response)
  /\ UNCHANGED <<storeVars, workerRef, callbacksRef, promises>>

\* the next progress response of a run
self_progress(k) ==
  /\ k \in DOMAIN handlers
  /\ ~finished(handlers[k])
  /\ Len(handlers[k].posts) < Len(progressPosts)
  /\ postMessage(k, [type |-> "progress", id |-> handlers[k].message.id,
                     progress |-> progressPosts[Len(handlers[k].posts) + 1]])

\* the success response of a run, after its last progress response
self_success(k) ==
  /\ k \in DOMAIN handlers
  /\ ~finished(handlers[k])
  /\ Len(handlers[k].posts) = Len(progressPosts)
  /\ postMessage(k, [type |-> "success", id |-> handlers[k].message.id,
                     result |-> resultOf(handlers[k].message)])

\* the catch block of a run: one of the steps that can throw did
self_error(k, error) ==
  /\ k \in DOMAIN handlers
  /\ ~finished(handlers[k])
  /\ Len(handlers[k].posts) \in throwingSteps
  /\ postMessage(k, [type |-> "error", id |-> handlers[k].message.id,
                     error |-> error])

\* workerRef.current.onmessage: the dispatcher takes the next response
worker_onmessage ==
  /\ port # <<>>
  /\ LET response == Head(port)
         k == getCallback(response.id)
     IN  /\ port' = Tail(port)
         /\ IF k # 0
              THEN /\ promises' = [promises EXCEPT ![k] = callback(@, response)]
                   /\ callbacksRef' = deleteCallback(response.id, response)
              ELSE UNCHANGED <<promises, callbacksRef>>
  /\ UNCHANGED <<storeVars, workerRef, handlers>>

NextHook ==
  \/ effect
  \/ \E delivered \in BOOLEAN : cleanup(delivered)
  \/ \E id \in RequestIds : \E onProgress \in BOOLEAN : processImage(id, onProgress)
  \/ \E k \in 1..MaxRequests : reader_onload(k)
  \/ \E k \in 1..MaxRequests : reader_onerror(k)
  \/ \E k \in 1..MaxRequests : self_progress(k)
  \/ \E k \in 1..MaxRequests : self_success(k)
  \/ \E k \in 1..MaxRequests : \E error \in WorkerErrors : self_error(k, error)
  \/ worker_onmessage

SpecHook == InitHook /\ [][NextHook]_vars

\* the ids of the requests in flight: those whose future is not settled
inFlightIds == {promises[k].id : k \in {i \in DOMAIN promises : ~settled(promises[i])}}

\* the hook under a caller that gives each request an id no request in
\* flight has
NextHookDistinct ==
  \/ effect
  \/ \E delivered \in BOOLEAN : cleanup(delivered)
  \/ \E id \in RequestIds \ inFlightIds : \E onProgress \in BOOLEAN :
       processImage(id, onProgress)
  \/ \E k \in 1..MaxRequests : reader_onload(k)
  \/ \E k \in 1..MaxRequests : reader_onerror(k)
  \/ \E k \in 1..MaxRequests : self_progress(k)
  \/ \E k \in 1..MaxRequests : self_success(k)
  \/ \E k \in 1..MaxRequests : \E error \in WorkerErrors : self_error(k, error)
  \/ worker_onmessage

SpecHookDistinct == InitHook /\ [][NextHookDistinct]_vars

\* the hook when worker.terminate() discards the responses the worker had
\* posted and the dispatcher had not taken yet
NextHookDiscard ==
  \/ effect
  \/ cleanup(FALSE)
  \/ \E id \in RequestIds : \E onProgress \in BOOLEAN : processImage(id, onProgress)
  \/ \E k \in 1..MaxRequests : reader_onload(k)
  \/ \E k \in 1..MaxRequests : reader_onerror(k)
  \/ \E k \in 1..MaxRequests : self_progress(k)
  \/ \E k \in 1..MaxRequests : self_success(k)
  \/ \E k \in 1..MaxRequests : \E error \in WorkerErrors : self_error(k, error)
  \/ worker_onmessage

SpecHookDiscard == InitHook /\ [][NextHookDiscard]_vars

\* the hook when every event that is due arrives: the FileReader fires load
\* or error, a run of self.onmessage goes on to its next post, and the
\* dispatcher takes the responses in the port; mounting, unmounting and the
\* calls of processImage are the caller's
SpecHookFair ==
  /\ SpecHook
  /\ \A k \in 1..MaxRequests :
       /\ WF_vars(reader_onload(k) \/ reader_onerror(k))
       /\ WF_vars(self_progress(k) \/ self_success(k)
                    \/ \E error \in WorkerErrors : self_error(k, error))
  /\ WF_vars(worker_onmessage)

----------------------------------------------------------------------------
(* Properties of the registry *)

present(imgs, id) == findIndex(imgs, id) # 0

record(imgs, id) == imgs[findIndex(imgs, id)]

\* number of processSingleImage operations in flight for a record id
inFlight(inflight, id) ==
  BagCardinality([op \in {o \in BagToSet(inflight) : o.id = id} |-> inflight[op]])

StatusChanges ==
  {<<"idle", "processing">>, <<"error", "processing">>, <<"processing", "done">>,
   <<"processing", "error">>, <<"done", "idle">>, <<"error", "idle">>}

\* C1: every change of a record's status is one of idle->processing,
\* error->processing, processing->done, processing->error, done->idle, error->idle.
C1_StatusChanges ==
  [][\A id \in Ids :
       (/\ present(images, id) /\ present(images', id)
        /\ record(images, id).status # record(images', id).status)
       => <<record(images, id).status, record(images', id).status>> \in StatusChanges]_vars

\* C2: a record has a result if and only if its status is done.
C2_ResultIffDone ==
  \A i \in 1..Len(images) : Has(images[i], "result") <=> images[i].status = "done"

\* C3: a record has an errorMessage if and only if its status is error.
C3_ErrorMessageIffError ==
  \A i \in 1..Len(images) : Has(images[i], "errorMessage") <=> images[i].status = "error"

\* C4: isProcessing is true exactly while some processImages run has a launched
\* operation that has not settled, also when runs overlap.
C4_FlagCoversRuns == isProcessing <=> runs # {}

\* C5: at most one processSingleImage operation is in flight for a record id.
C5_OneInFlight == \A id \in Ids : inFlight(ops, id) <= 1

\* C8: the result stored on a done record is the one its current settings produce.
C8_ResultFromCurrentSettings ==
  \A i \in 1..Len(images) :
    (images[i].status = "done" /\ Has(images[i], "result"))
    => images[i].result.blob = resultBlob(images[i].file, images[i].settings.mode,
                                          images[i].settings.format,
                                          images[i].settings.enableCompression)


\* ids of the records whose status is not done
notDoneIds(imgs) == {imgs[i].id : i \in {j \in 1..Len(imgs) : imgs[j].status # "done"}}

\* C6: processImages launches processSingleImage exactly once for each record
\* that is not done at the call and for no other, nothing completes before all
\* are launched, and the done records are left as they were.
C6_BatchLaunch ==
  [][last'.op = "processImages" =>
       /\ ops \sqsubseteq ops'
       /\ \A id \in Ids :
            inFlight(ops', id) - inFlight(ops, id) = IF id \in notDoneIds(images) THEN 1 ELSE 0
       /\ Len(images') = Len(images)
       /\ \A i \in 1..Len(images) :
            IF images[i].status = "done"
              THEN images'[i] = images[i]
              ELSE images'[i].status = "processing"]_vars

\* a batch run has just launched the not-done record and skipped the done one
C6_Witness ==
  /\ last.op = "processImages"
  /\ \E i, j \in 1..Len(images) :
       /\ images[i].status = "done" /\ Has(images[i], "result")
       /\ inFlight(ops, images[i].id) = 0
       /\ images[j].status = "processing"
       /\ \E op \in BagToSet(ops) : op.id = images[j].id /\ op.run \in runs

\* C7: a failing transform puts its own record in error with a message and
\* touches no other record or operation, a succeeding one puts its own record
\* in done, no rejection escapes processSingleImage or processImages, a run
\* whose last operation settles clears isProcessing, and the flag is false
\* whenever nothing is in flight.
C7_FailureIsolation ==
  /\ [](~unhandled)
  /\ [](ops = EmptyBag => ~isProcessing)
  /\ [][last'.op \in {"opFails", "opSucceeds"} =>
         /\ Len(images') = Len(images)
         /\ \A i \in 1..Len(images) :
              IF images[i].id = last'.id
                THEN IF last'.op = "opFails"
                       THEN images'[i].status = "error" /\ Has(images'[i], "errorMessage")
                       ELSE images'[i].status = "done" /\ Has(images'[i], "result")
                ELSE images'[i] = images[i]
         /\ BagCardinality(ops') = BagCardinality(ops) - 1
         /\ \A id \in Ids \ {last'.id} : inFlight(ops', id) = inFlight(ops, id)
         /\ (last'.run # 0 /\ \A op \in BagToSet(ops') : op.run # last'.run)
              => (~isProcessing' /\ last'.run \notin runs')]_vars

\* one record of a batch run has just failed while a sibling of the same run
\* is still in flight
C7_Witness ==
  /\ last.op = "opFails"
  /\ last.run # 0
  /\ present(images, last.id)
  /\ record(images, last.id).status = "error"
  /\ \E op \in BagToSet(ops) : op.run = last.run /\ op.id # last.id
  /\ isProcessing

\* C9: updateSettings(id, partial) merges partial into the record's settings,
\* sets the record to idle without a result, and changes nothing else; an id
\* that is not in the collection changes nothing.
C9_UpdateSettingsFrame ==
  [][last'.op = "updateSettings" =>
       /\ Len(images') = Len(images)
       /\ \A i \in 1..Len(images) :
            IF images[i].id = last'.id
              THEN /\ DOMAIN images'[i].settings
                        = (DOMAIN images[i].settings) \cup (DOMAIN last'.settings)
                   /\ \A k \in DOMAIN last'.settings :
                        images'[i].settings[k] = last'.settings[k]
                   /\ \A k \in (DOMAIN images[i].settings) \ (DOMAIN last'.settings) :
                        images'[i].settings[k] = images[i].settings[k]
                   /\ images'[i].status = "idle"
                   /\ ~Has(images'[i], "result")
                   /\ images'[i].id = images[i].id
                   /\ images'[i].file = images[i].file
              ELSE images'[i] = images[i]
       /\ (~present(images, last'.id) => images' = images)
       /\ globalSettings' = globalSettings
       /\ isProcessing' = isProcessing]_vars

\* updateSettings has just reset one record while another one is done
C9_Witness ==
  /\ last.op = "updateSettings"
  /\ present(images, last.id)
  /\ Has(record(images, last.id).settings, "width")
  /\ record(images, last.id).status = "idle"
  /\ \E i \in 1..Len(images) :
       images[i].id # last.id /\ images[i].status = "done" /\ Has(images[i], "result")

\* C10: after applyGlobalSettings every record is idle without a result, and a
\* second call right after the first changes no record.
C10_ApplyIdempotent ==
  /\ [](last.op = "applyGlobalSettings" =>
          \A i \in 1..Len(images) : images[i].status = "idle" /\ ~Has(images[i], "result"))
  /\ [][(last.op = "applyGlobalSettings" /\ last'.op = "applyGlobalSettings")
          => images' = images]_vars

\* applyGlobalSettings has been called twice in a row on records whose settings
\* differed from the global ones
C10_Witness ==
  /\ last.op = "applyGlobalSettings"
  /\ last.again
  /\ globalSettings.format = "image/png"
  /\ Len(images) = 2
  /\ \E i \in 1..Len(images) : Has(images[i].settings, "width")

----------------------------------------------------------------------------
(* Settings of the records against the global settings *)

\* the fields a record's settings share with the global settings
SharedSettings ==
  {"format", "enableCompression", "mode", "maintainAspectRatio", "scale", "width", "height"}

\* settings and gs hold the same value, or both none, under every shared field
agree(settings, gs) ==
  \A k \in SharedSettings :
    /\ Has(settings, k) <=> Has(gs, k)
    /\ Has(gs, k) => settings[k] = gs[k]

\* C11: right after addFiles the settings of each new record, and right after
\* applyGlobalSettings the settings of every record, agree with the global
\* settings on format, compression flag, mode, aspect-ratio flag, scale factor
\* and custom width and height.
C11_SettingsFollowGlobal ==
  [][/\ last'.op = "addFiles" =>
          \A i \in (Len(images) + 1)..Len(images') : agree(images'[i].settings, globalSettings')
     /\ last'.op = "applyGlobalSettings" =>
          \A i \in 1..Len(images') : agree(images'[i].settings, globalSettings')]_vars

\* C12: updateGlobalSettings merges its partial into the global settings and
\* leaves the collection, the flag and the operations in flight as they were;
\* the settings of a record change only in an updateSettings for its id or in
\* an applyGlobalSettings; a record added afterwards is seeded from the global
\* settings of that moment.
C12_UpdateGlobalSettingsFrame ==
  [][/\ last'.op = "updateGlobalSettings" =>
          /\ globalSettings' = Merge(globalSettings, last'.settings)
          /\ images' = images
          /\ isProcessing' = isProcessing
          /\ ops' = ops
     /\ \A id \in Ids :
          (/\ present(images, id) /\ present(images', id)
           /\ record(images', id).settings # record(images, id).settings)
          => \/ last'.op = "updateSettings" /\ last'.id = id
             \/ last'.op = "applyGlobalSettings"
     /\ last'.op = "addFiles" =>
          \A i \in (Len(images) + 1)..Len(images') :
            \A k \in DOMAIN images'[i].settings : images'[i].settings[k] = globalSettings[k]]_vars

\* the global settings have just been changed next to a done record that still
\* carries the settings it was seeded with
C12_Witness ==
  /\ last.op = "updateGlobalSettings"
  /\ globalSettings.format = "image/png"
  /\ \E i \in 1..Len(images) :
       /\ images[i].settings.format = "image/webp"
       /\ images[i].status = "done" /\ Has(images[i], "result")

\* C13: addFiles appends one record for each input whose declared type is an
\* image type, in input order, and none for any other input; each new record
\* is idle without result and errorMessage; the records that were there are
\* unchanged.
C13_AddFiles ==
  [][last'.op = "addFiles" =>
       LET accepted == SelectSeq(last'.files, LAMBDA f : startsWithImage(f.type))
       IN /\ Len(images') = Len(images) + Len(accepted)
          /\ \A i \in 1..Len(images) : images'[i] = images[i]
          /\ \A i \in 1..Len(accepted) :
               LET new == images'[Len(images) + i]
               IN /\ new.file = accepted[i]
                  /\ new.status = "idle"
                  /\ ~Has(new, "result")
                  /\ ~Has(new, "errorMessage")
          /\ globalSettings' = globalSettings
          /\ isProcessing' = isProcessing
          /\ ops' = ops]_vars

\* an image and a file that is not one have just been offered next to a done
\* record: one record was added
C13_Witness ==
  /\ last.op = "addFiles"
  /\ \E i, j \in 1..Len(last.files) :
       startsWithImage(last.files[i].type) /\ ~startsWithImage(last.files[j].type)
  /\ Len(images) = 2
  /\ images[1].status = "done" /\ Has(images[1], "result")
  /\ images[2].status = "idle"

\* C14: removeImage(id) takes the record with that id out of the collection
\* and leaves the other records as they were, in their order; a record that
\* has left the collection is in it in no later state, also when an operation
\* launched for it completes after the removal.
C14_RemovalIsFinal ==
  [][/\ last'.op = "removeImage" =>
          /\ ~present(images', last'.id)
          /\ Len(images') = Len(images) - (IF present(images, last'.id) THEN 1 ELSE 0)
          /\ \A i \in 1..Len(images) :
               images[i].id # last'.id =>
                 images'[IF present(images, last'.id) /\ i > findIndex(images, last'.id)
                           THEN i - 1 ELSE i] = images[i]
     /\ \A id \in Ids :
          (id < nextId /\ ~present(images, id)) => ~present(images', id)]_vars

\* an operation has just completed for a record that was removed while it
\* was in flight, next to a record that is still there
C14_Witness ==
  /\ last.op \in {"opSucceeds", "opFails"}
  /\ last.id < nextId
  /\ ~present(images, last.id)
  /\ Len(images) = 1

----------------------------------------------------------------------------
(* Object URLs of the records *)

\* the result URLs held by the records of a collection
resultUrls(imgs) ==
  {imgs[i].result.url : i \in {j \in 1..Len(imgs) : Has(imgs[j], "result")}}

\* C15: no preview or result URL is passed to URL.revokeObjectURL more than
\* once.
C15_ReleasedOnce == \A u \in BagToSet(released) : CopiesIn(u, released) <= 1

\* clearAll has just released the preview URLs of two records and a result URL
\* while an operation is in flight
C15_Witness ==
  /\ last.op = "clearAll"
  /\ BagCardinality(released) >= 3
  /\ \E u \in BagToSet(released) : u[1] = "result"
  /\ ops # EmptyBag

\* the result URLs that stop being the current result of a record in a step:
\* the one a record held before a completion for it, before its settings were
\* reset or before it left the collection, and the one a completion creates for
\* a record that is no longer there
C16_Dropped ==
  {u \in resultUrls(images) :
     \/ u \notin resultUrls(images')
     \/ last'.op = "opSucceeds" /\ u = last'.url}
  \cup (IF last'.op = "opSucceeds" /\ last'.url \notin resultUrls(images')
          THEN {last'.url} ELSE {})

\* C16: every result URL that stops being the current result of a record is
\* released in the step in which it stops.
C16_DroppedResultsReleased ==
  [][\A u \in C16_Dropped : BagIn(u, released')]_vars

\* C17: once clearAll has run and the operations that were in flight have
\* settled, with no other store call in between, the collection is empty and
\* the result URL that a completion created in the meantime has been released.
C17_ClearAllReleasesAll ==
  (sinceClearAll(last) /\ ops = EmptyBag) =>
     /\ images = <<>>
     /\ last.op = "opSucceeds" => BagIn(last.url, released)

----------------------------------------------------------------------------
(* Record ids *)

\* C18: no two records of the collection have the same id, and addFiles gives
\* a new record no id that was given to a record before.
C18_UniqueIds ==
  /\ [](\A i, j \in 1..Len(images) : i # j => images[i].id # images[j].id)
  /\ [][last'.op = "addFiles" =>
          \A i \in (Len(images) + 1)..Len(images') : images'[i].id \notin issued]_vars

----------------------------------------------------------------------------
(* Format policy and stage order *)

\* format and quality the format policy gives for a mode, source type, target
\* format and compression flag, quality in hundredths
C19_Policy(mode, sourceType, format, enableCompression) ==
  IF mode = "compress" THEN [type |-> sourceType, quality |-> 92]
  ELSE [type |-> format,
        quality |-> IF ~enableCompression THEN 100
                    ELSE IF format \in {"image/jpeg", "image/webp"} THEN 92
                    ELSE IF format = "image/avif" THEN 90 ELSE 100]

\* C19: for every mode, target format and compression flag the bytes of the
\* result are encoded with the format and quality of the format policy, in the
\* store's pipeline and in the worker.
C19_FormatPolicy ==
  /\ call.fn = "processSingleImage" =>
       encodingOf(call.resultBlob)
         = C19_Policy(call.mode, call.file.type, call.format, call.enableCompression)
  /\ call.fn = "onmessage" =>
       call.options
         = C19_Policy(call.mode, call.file.type, call.format, call.enableCompression)

\* C20: convert runs the re-encode only; compress runs the re-encode and then
\* the compression stage; both runs the re-encode and then the compression
\* stage if the flag is set; the compression stage always takes the bytes of
\* the re-encode.
C20_StageOrder ==
  call.fn = "processSingleImage" =>
    /\ sourceOf(call.resultBlob) = call.file
    /\ stagesOf(call.resultBlob)
         = IF call.mode = "convert" THEN <<"convertImage">>
           ELSE IF call.mode = "compress" THEN <<"convertImage", "compressImage">>
           ELSE IF call.enableCompression THEN <<"convertImage", "compressImage">>
           ELSE <<"convertImage">>

----------------------------------------------------------------------------
(* Export *)

\* the format of the bytes of a record's result: the source's own format for a
\* record in mode compress, the target format of its settings otherwise
C21_EffectiveFormat(img) ==
  IF img.settings.mode = "compress" THEN img.file.type ELSE img.settings.format

\* C21: the name of every exported file is the sanitized base name of the
\* source, the fixed suffix and the extension of the record's effective output
\* format, which for a record in mode compress is the format of the source.
C21_ExportNames ==
  call.fn = "exportImages" =>
    LET done == doneImages(images)
        expected == [i \in 1..Len(done) |->
                       exportName(done[i].file.name, C21_EffectiveFormat(done[i]))]
    IN /\ Len(done) = 1 => call.downloads[1].download = expected[1]
       /\ Len(done) > 1 =>
            /\ \A i \in 1..Len(done) : expected[i] \in DOMAIN call.downloads[1].zip
            /\ \A n \in DOMAIN call.downloads[1].zip : \E i \in 1..Len(done) : n = expected[i]

\* C22: exportImages starts no download when no record is done, one download
\* of the file when one record is done, and one download of an archive with as
\* many entries as there are done records when more are done; it leaves the
\* collection, the settings and isProcessing as they were.
C22_ExportCount ==
  /\ [](call.fn = "exportImages" =>
          LET n == Cardinality({i \in 1..Len(images) : images[i].status = "done"})
          IN /\ n = 0 => call.downloads = <<>>
             /\ n = 1 => Len(call.downloads) = 1 /\ "zip" \notin DOMAIN call.downloads[1]
             /\ n > 1 => /\ Len(call.downloads) = 1
                         /\ "zip" \in DOMAIN call.downloads[1]
                         /\ Cardinality(DOMAIN call.downloads[1].zip) = n)
  /\ [][call'.fn = "exportImages" =>
          /\ images' = images
          /\ globalSettings' = globalSettings
          /\ isProcessing' = isProcessing]_vars

----------------------------------------------------------------------------
(* The transform of one record *)

\* Math.round(length * scale) for a scale given as numerator and denominator
C23_Round(length, scale) == (2 * length * scale[1] + scale[2]) \div (2 * scale[2])

\* C23: the canvas the transform encodes has the dimensions planned from the
\* record's resize policy: each axis is round(original x scale factor), which
\* with factor 1 are the dimensions of the source.
C23_PlannedDimensions ==
  "canvas" \in DOMAIN call =>
    /\ call.canvas.width = C23_Round(call.image.file.width, call.image.settings.scale)
    /\ call.canvas.height = C23_Round(call.image.file.height, call.image.settings.scale)

\* C24: the width and the height of the canvas the transform encodes are at
\* least 1 and at most 4096.
C24_CanvasWithinLimits ==
  "canvas" \in DOMAIN call =>
    /\ call.canvas.width >= 1 /\ call.canvas.width <= 4096
    /\ call.canvas.height >= 1 /\ call.canvas.height <= 4096

\* C25: a record is in error for a failed encoding only after canvas.toBlob
\* was called a second time, with PNG at quality 1.0.
C25_PngRetry ==
  ("errorMessage" \in DOMAIN call /\ call.errorMessage = "ConversionFailed") =>
    /\ Len(call.toBlob) = 2
    /\ call.toBlob[2] = [type |-> "image/png", quality |-> 100]

\* C26: on a runtime that cannot encode AVIF a record that requests AVIF is
\* encoded to WEBP; no step of the run changes the record's settings.
C26_AvifFallback ==
  /\ [](\A i \in 1..Len(call.toBlob) :
          (call.image.settings.format = "image/avif" /\ ~call.runtime.avif)
          => call.toBlob[i].type = "image/webp")
  /\ [][call'.image.settings = call.image.settings]_vars

\* C27: a record that is processing eventually is done or in error.
C27_ProcessingEnds ==
  (call.status = "processing") ~> (call.status \in {"done", "error"})

----------------------------------------------------------------------------
(* Properties of the worker hook *)

\* the requests whose callback is waiting for the worker's responses
waiting(k) ==
  /\ k \in DOMAIN promises
  /\ promises[k].reader = "loaded"
  /\ ~settled(promises[k])

\* a step of the dispatcher: it took the response at the head of the port
delivery == port # <<>> /\ port' = Tail(port) /\ workerRef' = workerRef

C30_TeardownRejects ==
  /\ [][(Len(promises') > Len(promises) /\ workerRef = "null")
          => promises'[Len(promises')].status = "rejected"]_vars
  /\ \A k \in 1..MaxRequests :
       (k \in DOMAIN promises /\ ~settled(promises[k]) /\ workerRef = "null")
          ~> (k \in DOMAIN promises /\ promises[k].status = "rejected")

(* C31: once a cleanup of the effect found a request unsettled, no         *)
(* callback of that request is invoked: its onProgress is not called and   *)
(* its future is not resolved with a result.                               *)
C31_AbandonedStaySilent ==
  [][\A k \in DOMAIN promises :
       promises[k].abandoned =>
         /\ promises'[k].progress = promises[k].progress
         /\ promises'[k].status = "resolved" => promises[k].status = "resolved"]_vars

(* C32: a record that is in the collection before and after a step, found *)
(* by its id, has the same source file and the same preview URL after it, *)
(* whatever the step: updateSettings, applyGlobalSettings, the start of a *)
(* processSingleImage or its completion; and a step that neither adds nor *)
(* drops a record leaves the id at every position.                        *)
C32_IdentityFieldsKept ==
  [][/\ \A i \in DOMAIN images : \A j \in DOMAIN images' :
          images'[j].id = images[i].id =>
            /\ images'[j].file = images[i].file
            /\ images'[j].previewUrl = images[i].previewUrl
     /\ Len(images') = Len(images) =>
          \A i \in DOMAIN images : images'[i].id = images[i].id]_vars

\* a record whose settings were updated and that was processed to done after
\* that, while the global settings were changed too
C32_Witness ==
  \E id \in Ids :
    /\ present(images, id)
    /\ record(images, id).status = "done"
    /\ Has(record(images, id).settings, "width")
    /\ last.op = "opSucceeds"

\* the positions in imgs of the records whose id is in the set ids
kept(imgs, ids) == {i \in DOMAIN imgs : imgs[i].id \in ids}

\* the ids of the records of a collection
idsOf(imgs) == {imgs[i].id : i \in DOMAIN imgs}

C34_NoReleasedUrlHeld ==
  \A u \in heldUrls(images) : CopiesIn(u, released) = 0

\* a record with a result is in the collection right after the URLs of
\* another record were released by removeImage, with an operation in flight
C34_Witness ==
  /\ last.op = "removeImage"
  /\ released # EmptyBag
  /\ ops # EmptyBag
  /\ \E i \in DOMAIN images : Has(images[i], "result")

(* C35: for every mode, target format, compression flag and source file   *)
(* the encoding that made the bytes of the store's result has the format  *)
(* and the quality the worker hands to convertToBlob for the same input.  *)
C35_PipelinesAgree ==
  /\ call.fn = "processSingleImage" =>
       encodingOf(call.resultBlob)
         = convertToBlobOptions(call.mode, call.file.type, call.format,
                                call.enableCompression)
  /\ call.fn = "onmessage" =>
       call.options
         = encodingOf(resultBlob(call.file, call.mode, call.format,
                                 call.enableCompression))

(* C36: under the operations of the pages at most one processImages run is *)
(* in flight, all operations in flight that belong to a run belong to the  *)
(* same run, and a start step puts every record of the collection in       *)
(* processing and adds one operation of its run per record, the records    *)
(* that were done included.                                                *)
C36_StartRuns ==
  /\ [](/\ Cardinality(runs) <= 1
        /\ \A op \in BagToSet(ops) : op.run # 0 => op.run \in runs
        /\ isProcessing <=> runs # {})
  /\ [][last'.op = "start" =>
          /\ Len(images') = Len(images)
          /\ \A i \in DOMAIN images :
               /\ images'[i].status = "processing"
               /\ \E op \in BagToSet(ops') :
                    /\ op.id = images[i].id
                    /\ op.run \in runs' \ runs
          /\ BagCardinality(ops') = BagCardinality(ops) + Len(images)]_vars

\* the start button has just been pressed over a record that was done
C36_Witness ==
  /\ last.op = "start"
  /\ \E i \in DOMAIN last.before : last.before[i].status = "done"
  /\ isProcessing

\* the characters of SanitizeChars the claim lets through: ASCII letters,
\* digits, underscore, hyphen, dot, and the ideographs U+4E00 to U+9FA5
C37_Allowed == {"a", "Z", "5", "_", "-", ".", "图", "龥"}

(* C37: sanitizeFileName returns a name of the same length in which every  *)
(* character that is an ASCII letter, a digit, an underscore, a hyphen, a  *)
(* dot or an ideograph of the range is the character of the input at that  *)
(* position and every other position holds an underscore; applied to its   *)
(* own result it returns that result.                                      *)
C37_Sanitize ==
  call.fn = "sanitizeFileName" =>
    /\ Len(call.result) = Len(call.name)
    /\ \A i \in 1..Len(call.name) :
         call.result[i] = IF call.name[i] \in C37_Allowed THEN call.name[i] ELSE "_"
    /\ Has(call, "again") => call.result = call.name

\* a name of three characters with an ideograph of the range, the ideograph
\* after the range and a blank has been sanitized, and so has the result
C37_Witness ==
  /\ call.fn = "sanitizeFileName"
  /\ Has(call, "again")
  /\ call.of = <<"图", "龦", " ">>
  /\ call.result = <<"图", "_", "_">>

====
